---- MODULE Spec2Model ----
(***************************************************************************)
(* The reactive engine of pkg/signals: cells (signal), memos, effects, the *)
(* scope with its batch and cleanup list, and the engine with its listener *)
(* stack and batch queue.  One goroutine drives the public API; every API  *)
(* call is one action that runs the whole synchronous call tree (notify,   *)
(* re-evaluation, nested Get) to its return, or to the point where the     *)
(* goroutine blocks on a lock it already holds (hung).                     *)
(*                                                                         *)
(* Scope.Batch(fn) is the one call whose body is caller code that makes    *)
(* further API calls: it is split into BatchEnter (the code before fn),    *)
(* the API calls fn makes, and BatchExit (the deferred flush), or          *)
(* BatchFail when fn panics and the deferred flush runs while unwinding.   *)
(*                                                                         *)
(* A function of a node that panics ends the call tree at that point: only *)
(* deferred statements still run (failed names the node).                  *)
(*                                                                         *)
(* Where goroutines call the API at the same time (SpecRace) a call is     *)
(* followed step by step instead, with the mutexes each step takes.        *)
(***************************************************************************)
EXTENDS Integers, Sequences, FiniteSets, TLC

VARIABLES
    value,          \* signal.value of every cell and of every memo (embedded)
    subscribers,    \* signal.subscribers of every cell and memo
    sources,        \* effect.sources / memo.sources
    isDirty,        \* memo.isDirty
    fn,             \* effect.fn / memo.fn: the function the node was created with
    listener,       \* Engine.listener
    listenerStack,  \* Engine.listenerStack
    isBatching,     \* Engine.isBatching
    batchQueue,     \* Engine.batchQueue
    isLive,         \* Scope.isLive of the root scope
    isClosed,       \* Engine.isClosed
    cleanup,        \* Scope.cleanup of the root scope
    batchDepth,     \* number of Scope.Batch calls whose fn is executing
    hung,           \* the goroutine never returns from its call: it is blocked
                    \* forever on a lock it holds, or it ran out of stack
    stopped,        \* effects whose stop handle has been called
    written,        \* cells written since the outermost executing Batch began
    pendingAtWrite, \* effects that were subscribed to such a cell when written
    disposed,       \* scope.disposed of the scope made by Root (root.go)
    rootBatch,      \* 1 while the function of a Batch on that scope executes
    stored,         \* the value each cell was last given by the caller: by
                    \* New, Set or Update
    tracked,        \* the sources each computation read outside Untrack: now
                    \* in the latest run of its function, was in a run before
                    \* it and not in the latest; owed when a Set has queued
                    \* it and its notify has not been called since
    last,           \* what the most recent API call was and what it did
    pc,             \* where each goroutine stands in the call it is making
    frame,          \* the arguments and locals of that call
    locks,          \* the goroutine that holds each mutex: mu of a cell, mu
                    \* of an effect, Engine.batchQueueMu ("bq")
    fatal           \* the runtime has stopped the program (fatal error:
                    \* concurrent map iteration and map write)

vars == <<value, subscribers, sources, isDirty, fn, listener, listenerStack,
          isBatching, batchQueue, isLive, isClosed, cleanup, batchDepth,
          hung, stopped, written, pendingAtWrite, disposed, rootBatch,
          stored, tracked, last, pc, frame, locks, fatal>>

----------------------------------------------------------------------------
(* Bounds *)

MaxVal == 1         \* cells hold 0..MaxVal
MaxCleanup == 3     \* longest Scope.cleanup list explored
MaxDepth == 2       \* deepest nesting of Batch calls explored
MaxStack == 2       \* longest Engine.listenerStack a call that returns may
                    \* leave behind
MaxFrames == 4      \* deepest nesting of memo evaluations a call stack holds

----------------------------------------------------------------------------
(* The nodes and the functions they can be created with *)

Cells == {"a", "b"}
Memos == {"m1", "m2"}
Effects == {"e1", "e2"}
Sources == Cells \cup Memos       \* subscribable
Comps == Effects \cup Memos       \* computation
Vals == 0 .. MaxVal
Nil == "nil"
None == "none"
NoVal == 0 - 1

\* The goroutines that call the API at the same time, and the mutexes they
\* meet: mu of every cell, mu of every effect, Engine.batchQueueMu.
Goroutines == {"g1", "g2"}
Mutexes == Cells \cup Effects \cup {"bq"}

\* The locals of a call: the cell and value of a Set and the subscribers its
\* loop has produced; the computation a notify or cleanup runs on, where it
\* returns to, the sources its loop has still to produce, the source it has
\* locked, and the listener a Get has read.
Frame0 == [node |-> Nil, val |-> 0, seen |-> {}, comp |-> Nil, ret |-> Nil,
           pend |-> {}, cur |-> Nil, lis |-> Nil]

Op(k, n) == [k |-> k, n |-> n]

\* The statements of an effect function, in order.
\*   get n      _ = n.Get()
\*   untrack n  Untrack(s, func() { _ = n.Get() })
\*   oncleanup  OnCleanup(s, func() { ... })
\*   getif n    if x == 1 { _ = n.Get() }, x being what the get returned
\*   getelse n  if x != 1 { _ = n.Get() }
\*   set n      n.Set(x)
\*   failif     if x == 1 { panic("...") }
\*   failelse   if x != 1 { panic("...") }
Body(p) ==
    CASE p = "readA"          -> << Op("get", "a") >>
      [] p = "readB"          -> << Op("get", "b") >>
      [] p = "readA_untrackB" -> << Op("get", "a"), Op("untrack", "b") >>
      [] p = "untrackB_readA" -> << Op("untrack", "b"), Op("get", "a") >>
      [] p = "readM2"         -> << Op("get", "m2") >>
      [] p = "readA_onCleanup" -> << Op("get", "a"), Op("oncleanup", "-") >>
      [] p = "readA_ifB"      -> << Op("get", "a"), Op("getif", "b") >>
      [] p = "readA_setB"     -> << Op("get", "a"), Op("set", "b") >>
      [] p = "readM1_M2"      -> << Op("get", "m1"), Op("get", "m2") >>
      [] p = "readA_failIf_B" -> << Op("get", "a"), Op("failif", "-"),
                                    Op("get", "b") >>
      [] p = "readA_BorM2Fail" -> << Op("get", "a"), Op("getif", "b"),
                                     Op("getelse", "m2"), Op("failelse", "-") >>
      [] p = "readA_BorM2"    -> << Op("get", "a"), Op("getif", "b"),
                                    Op("getelse", "m2") >>
      [] OTHER                -> << >>

EffectFns(e) ==
    IF e = "e1"
    THEN {"readA", "readB", "readA_untrackB", "untrackB_readA", "readM2",
          "readA_onCleanup"}
    ELSE {"readA", "readB"}

\* The sources a memo function reads, in order, and the value it returns.
\* After "?" the function goes on only if the value it has just read is 1;
\* at "!" it panics if that value is 1.
MemoReads(p) ==
    CASE p = "double_a" -> << "a" >>
      [] p = "sum_ab"   -> << "a", "b" >>
      [] p = "inc_m1"   -> << "m1" >>
      [] p = "inc_m2"   -> << "m2" >>
      [] p = "a_then_b" -> << "a", "?", "b" >>
      [] p = "m1_plus_b" -> << "m1", "b" >>
      [] p = "a_failIf_b" -> << "a", "!", "b" >>
      [] OTHER          -> << >>

MemoApply(p, vals) ==
    CASE p = "double_a" -> vals[1] * 2
      [] p = "sum_ab"   -> vals[1] + vals[2]
      [] p = "inc_m1"   -> vals[1] + 1
      [] p = "inc_m2"   -> vals[1] + 1
      [] p = "a_then_b" -> IF Len(vals) = 2 THEN vals[1] + vals[2] ELSE vals[1]
      [] p = "m1_plus_b" -> vals[1] + vals[2]
      [] p = "a_failIf_b" -> vals[1] + vals[2]
      [] OTHER          -> 0

\* The sources among the reads of a memo function that returned the first n
\* values.
ReadsDone(p, n) ==
    LET srcs == SelectSeq(MemoReads(p), LAMBDA x : x \notin {"?", "!"})
    IN {srcs[i] : i \in 1 .. n}

MemoFns(m) == IF m = "m1" THEN {"double_a", "sum_ab"} ELSE {"inc_m1", "double_a"}

\* The memos a function refers to: they are created before it is.
EffectMemos(p) == {Body(p)[i].n : i \in DOMAIN Body(p)} \cap Memos
MemoMemos(p) == {MemoReads(p)[i] : i \in DOMAIN MemoReads(p)} \cap Memos

\* The callback an effect function registers with OnCleanup, and the
\* callbacks the caller registers directly.
Cb(e) == "cb_" \o e
UserCbs == {"u1", "u2"}

----------------------------------------------------------------------------
(* The call tree of one API call works on a record st of the fields below. *)
(* Beside the program's fields it carries                                  *)
(*   held     the locks the goroutine holds across calls: "bq" for        *)
(*            Engine.batchQueueMu (signal.Set) and a memo's name for the   *)
(*            read lock on its mu (memo.notify, memo.cleanup);             *)
(*   hung     the goroutine has blocked on a lock in held, or has used up  *)
(*            its stack (overflow);                                        *)
(*   depth    the frames of memo.runComputation on the goroutine's stack;  *)
(*   failed   the computation whose function has panicked, while the panic *)
(*            unwinds the call stack (Nil otherwise);                      *)
(*   partial  where an interrupted cleanup loop stood when it blocked;     *)
(*   ord      the order in which this call's range loops produce map keys; *)
(*   again    the keys a range loop produces once more when they are       *)
(*            re-created in the map during the loop;                        *)
(*   ins      the map entries created since the enclosing loop step;       *)
(*   runs, obs, ran   what the call did: function invocations per node,    *)
(*            the value each effect last read, the callbacks executed;     *)
(*   order    the effects whose function the call has invoked, in order;   *)
(*   sent     the subscribers on which the loop over each source's         *)
(*            subscribers has called notify, in order;                     *)
(*   tracked  the sources each computation's function has read outside     *)
(*            Untrack: in its latest run, and in earlier runs only.        *)
(***************************************************************************)

\* The orders in which a range loop can produce the keys of S.
Orders(S) == {o \in [1 .. Cardinality(S) -> S] :
                \A i, j \in 1 .. Cardinality(S) : i # j => o[i] # o[j]}
Ord0 == << "e1", "e2", "m1", "m2" >>

\* for k := range m, in the order the oracle gives the keys
Order(S, ord) == SelectSeq(ord, LAMBDA x : x \in S)

Hang(st) == [st EXCEPT !.hung = TRUE]

\* The recursion has no end: the runtime stops the program when the
\* goroutine's stack reaches its limit (fatal error: stack overflow).
Overflow(st) == [st EXCEPT !.hung = TRUE, !.overflow = TRUE]
Panic(st, c) == [st EXCEPT !.failed = c]

\* The call has blocked or is unwinding: no further statement executes,
\* only deferred functions.
Stopped(st) == st.hung \/ st.failed # Nil
HangPartial(st, c, done) ==
    [st EXCEPT !.hung = TRUE, !.partial = [c |-> c, s |-> done]]

pushListener(st, c) ==
    [st EXCEPT !.listenerStack = Append(@, st.listener), !.listener = c]

popListener(st) ==
    LET n == Len(st.listenerStack)
        stack == IF n > 0 THEN SubSeq(st.listenerStack, 1, n - 1)
                 ELSE st.listenerStack
    IN [st EXCEPT !.listenerStack = stack,
                  !.listener = IF Len(stack) > 0 THEN stack[Len(stack)]
                               ELSE Nil]

\* computation.addSource, for an effect and for a memo
addSource(st, c, s) == [st EXCEPT !.sources[c] = @ \cup {s}]

\* signal.unsubscribe without the delete of line 31.
unsubscribeKept(st, s, c) == st

\* signal.unsubscribe
unsubscribe(st, s, c) == [st EXCEPT !.subscribers[s] = @ \ {c}]

\* The tracked half of signal.Get / memo.Get: s.mu.Lock(), add the listener,
\* Unlock, listener.addSource(s) (which locks the listener's own mu).
Subscribe(st, s) ==
    IF st.listener = Nil THEN st
    ELSE IF s \in st.held THEN Hang(st)
    ELSE IF st.listener \in st.held
         THEN Hang([st EXCEPT !.subscribers[s] = @ \cup {st.listener}])
    ELSE LET l == st.listener
             st1 == [st EXCEPT !.subscribers[s] = @ \cup {l},
                               !.ins = IF l \in st.subscribers[s] THEN @
                                       ELSE @ \cup {<< s, l >>}]
         IN addSource(st1, l, s)

RECURSIVE UnsubscribeAll(_, _, _)
\* for s := range c.sources { s.unsubscribe(c) }: the calls on distinct
\* sources commute, so the order of this loop does not show.
UnsubscribeAll(st, c, srcs) ==
    IF srcs = {} THEN st
    ELSE UnsubscribeAll(unsubscribe(st, CHOOSE x \in srcs : TRUE, c), c,
                        srcs \ {CHOOSE x \in srcs : TRUE})

\* effect.cleanup: unsubscribe takes s.mu.Lock(), which blocks when the
\* goroutine holds the read lock of s.
effectCleanup(st, e) ==
    IF st.hung THEN st
    ELSE IF st.sources[e] \cap st.held # {}
         THEN HangPartial(st, e, st.sources[e] \ st.held)
    ELSE [UnsubscribeAll(st, e, st.sources[e]) EXCEPT !.sources[e] = {}]

\* memo.cleanup: holds m.mu (the embedded signal's lock) over the loop.
memoCleanup(st, m) ==
    IF st.hung THEN st
    ELSE IF m \in st.held THEN Hang(st)
    ELSE IF st.sources[m] \cap (st.held \cup {m}) # {}
         THEN HangPartial(st, m, st.sources[m] \ (st.held \cup {m}))
    ELSE [UnsubscribeAll(st, m, st.sources[m]) EXCEPT !.sources[m] = {}]

\* A step that follows a nested call is not reached when the call blocked;
\* a deferred step (Untrack's popListener, an Unlock) is reached when the call
\* panicked, a plain statement (the popListener of notify and runComputation)
\* is not.
PopUnlessHung(st) == IF st.hung THEN st ELSE popListener(st)
PopAfterFn(st) == IF Stopped(st) THEN st ELSE popListener(st)
Release(st, l) == IF st.hung THEN st ELSE [st EXCEPT !.held = @ \ {l}]

RECURSIVE Get(_, _), runComputation(_, _), ReadAll(_, _, _)
RECURSIVE notify(_, _), RangeNotify(_, _, _), RunOps(_, _, _)
RECURSIVE signalSet(_, _, _)

\* memo.Get without the test of line 36: the function runs on every read.
memoReadAlways(st, m) ==
    IF st.hung THEN st ELSE runComputation(st, m)

\* memo.Get, after the listener is registered: recompute when dirty.
memoRead(st, m) ==
    IF st.hung THEN st
    ELSE IF st.isDirty[m] THEN runComputation(st, m)
    ELSE st

\* memo.Get
memoGet(st, m) == memoRead(Subscribe(st, m), m)

\* signal.Get on a cell, memo.Get on a memo; the value returned is the
\* resulting record's value[n].
Get(st, n) ==
    IF Stopped(st) THEN st
    ELSE IF n \in Cells THEN Subscribe(st, n)
    ELSE memoGet(st, n)

\* The reads a memo function performs, collecting the values they return.
ReadNext(st, reads, vals) ==
    ReadAll(st, Tail(reads), Append(vals, st.value[Head(reads)]))

ReadAll(st, reads, vals) ==
    IF reads = << >> \/ Stopped(st)
    THEN [st |-> st, vals |-> vals, fail |-> FALSE]
    ELSE IF Head(reads) = "?"
         THEN IF vals[Len(vals)] = 1 THEN ReadAll(st, Tail(reads), vals)
              ELSE [st |-> st, vals |-> vals, fail |-> FALSE]
    ELSE IF Head(reads) = "!"
         THEN IF vals[Len(vals)] = 1
              THEN [st |-> st, vals |-> vals, fail |-> TRUE]
              ELSE ReadAll(st, Tail(reads), vals)
    ELSE ReadNext(Get(st, Head(reads)), reads, vals)

\* memo.runComputation without line 53: the value is stored, the flag stays.
storeValueOnly(st, m, newValue) ==
    IF m \in st.held THEN Hang(st)
    ELSE [st EXCEPT !.value[m] = newValue]

\* memo.runComputation, lines 51-54: store the value, clear the flag.
storeValue(st, m, newValue) ==
    IF m \in st.held THEN Hang(st)
    ELSE [st EXCEPT !.value[m] = newValue, !.isDirty[m] = FALSE]

\* The reads m.fn() has performed.
Tracked(r, m) ==
    [r.st EXCEPT !.tracked[m] =
        [now |-> ReadsDone(r.st.fn[m], Len(r.vals)),
         was |-> (@.was \cup @.now) \ ReadsDone(r.st.fn[m], Len(r.vals)),
         owed |-> @.owed]]

\* memo.runComputation, from popListener on; r is what m.fn() did and read.
afterFn(r, m) ==
    IF Stopped(r.st) THEN Tracked(r, m)
    ELSE IF r.fail THEN Panic(Tracked(r, m), m)
    ELSE storeValue(popListener([Tracked(r, m) EXCEPT !.depth = @ - 1]), m,
                    MemoApply(r.st.fn[m], r.vals))

\* memo.runComputation, from pushListener on.
evaluate(st, m) ==
    IF st.hung THEN st
    ELSE IF st.depth >= MaxFrames THEN Overflow(st)
    ELSE afterFn(ReadAll([pushListener(st, m) EXCEPT !.runs[m] = @ + 1,
                                                     !.depth = @ + 1],
                         MemoReads(st.fn[m]), << >>), m)

\* memo.runComputation
runComputation(st, m) == evaluate(memoCleanup(st, m), m)

\* Untrack around one read
Untrack(st, n) == PopUnlessHung(Get(pushListener(st, Nil), n))

\* OnCleanup
OnCleanup(st, cb) == [st EXCEPT !.cleanup = Append(@, cb)]

\* A read of n by the function of effect e, and the value it returned.
Track(st, e, n) ==
    IF st.hung THEN st
    ELSE [st EXCEPT !.tracked[e].now = @ \cup {n}, !.tracked[e].was = @ \ {n}]

Observe(st, e, n) ==
    IF st.hung THEN st
    ELSE IF st.failed # Nil THEN Track(st, e, n)
    ELSE [Track(st, e, n) EXCEPT !.obs[e] = st.value[n]]

\* One statement of the function of effect e.
RunOp(st, e, op) ==
    CASE op.k = "get" -> Observe(Get(st, op.n), e, op.n)
      [] op.k = "getif" -> IF st.obs[e] = 1
                           THEN Track(Get(st, op.n), e, op.n)
                           ELSE st
      [] op.k = "getelse" -> IF st.obs[e] # 1
                             THEN Track(Get(st, op.n), e, op.n)
                             ELSE st
      [] op.k = "untrack" -> Untrack(st, op.n)
      [] op.k = "oncleanup" -> OnCleanup(st, Cb(e))
      [] op.k = "set" -> signalSet(st, op.n, st.obs[e])
      [] op.k = "failif" -> IF st.obs[e] = 1 THEN Panic(st, e) ELSE st
      [] op.k = "failelse" -> IF st.obs[e] # 1 THEN Panic(st, e) ELSE st
      [] OTHER -> st

RunOps(st, e, ops) ==
    IF ops = << >> \/ Stopped(st) THEN st
    ELSE RunOps(RunOp(st, e, Head(ops)), e, Tail(ops))

\* effect.notify, from pushListener on.
effectRun(st, e) ==
    IF st.hung THEN st
    ELSE PopAfterFn(RunOps([pushListener(st, e) EXCEPT
                                  !.runs[e] = @ + 1,
                                  !.order = Append(@, e),
                                  !.tracked[e] = [now |-> {},
                                                  was |-> @.was \cup @.now,
                                                  owed |-> @.owed]],
                              e, Body(st.fn[e])))

\* effect.notify
effectNotify(st, e) == effectRun(effectCleanup(st, e), e)

\* memo.notify without the test of isDirty (lines 59-62).
memoNotifyAlways(st, m) ==
    IF m \in st.held THEN Hang(st)
    ELSE Release(RangeNotify([st EXCEPT !.isDirty[m] = TRUE,
                                        !.held = @ \cup {m}],
                             m, Order(st.subscribers[m], st.ord)), m)

\* memo.notify: the range over m.subscribers runs under m.mu.RLock().
memoNotify(st, m) ==
    IF m \in st.held THEN Hang(st)
    ELSE IF st.isDirty[m] THEN st
    ELSE Release(RangeNotify([st EXCEPT !.isDirty[m] = TRUE,
                                        !.held = @ \cup {m}],
                             m, Order(st.subscribers[m], st.ord)), m)

notify(st, c) ==
    IF Stopped(st) THEN st
    ELSE IF c \in Effects
         THEN effectNotify([st EXCEPT !.tracked[c].owed = FALSE], c)
    ELSE memoNotify([st EXCEPT !.tracked[c].owed = FALSE], c)

\* The keys created in s.subscribers during the last loop step that the loop
\* is not yet due to produce and that it produces once more.
CreatedAgain(st, s, rest) ==
    {k \in st.subscribers[s] \cap st.again :
        << s, k >> \in st.ins /\ k \notin {rest[i] : i \in DOMAIN rest}}

\* The loop after sub.notify() has returned.
RangeNext(st, s, rest) ==
    RangeNotify([st EXCEPT !.again = @ \ CreatedAgain(st, s, rest)], s,
                rest \o Order(CreatedAgain(st, s, rest), st.ord))

\* for sub := range s.subscribers { sub.notify() }
\* The map changes under the loop: a key removed before it is reached is not
\* produced, and a key created during the loop (a subscriber that
\* unsubscribed and read s again) is produced again or skipped; st.again
\* holds the keys the loop produces once more.
RangeNotify(st, s, todo) ==
    IF Stopped(st) \/ todo = << >> THEN st
    ELSE IF Head(todo) \notin st.subscribers[s]
         THEN RangeNotify(st, s, Tail(todo))
    ELSE RangeNext(notify([st EXCEPT !.ins = {p \in @ : p[1] # s},
                                     !.sent[s] = Append(@, Head(todo))],
                          Head(todo)), s, Tail(todo))

RECURSIVE SliceNotify(_, _)
\* for _, sub := range queue { sub.notify() }
SliceNotify(st, queue) ==
    IF Stopped(st) \/ queue = << >> THEN st
    ELSE SliceNotify(notify(st, Head(queue)), Tail(queue))

\* signal.Set, lines 60-69, under batchQueueMu
setNotify(st, c) ==
    IF st.isBatching
    THEN [st EXCEPT !.batchQueue = @ \cup st.subscribers[c],
                    !.tracked = [x \in Comps |->
                                   IF x \in st.subscribers[c]
                                   THEN [@[x] EXCEPT !.owed = TRUE] ELSE @[x]]]
    ELSE RangeNotify(st, c, Order(st.subscribers[c], st.ord))

\* signal.Set
signalSet(st, c, v) ==
    IF "bq" \in st.held THEN Hang([st EXCEPT !.value[c] = v])
    ELSE Release(setNotify([st EXCEPT !.value[c] = v,
                                      !.held = @ \cup {"bq"}], c), "bq")

\* signal.Update that does not apply fn to the stored value.
signalUpdateDropped(st, c, v) == st

\* signal.Update with fn = func(p *int) { *p = v }
signalUpdate(st, c, v) == [st EXCEPT !.value[c] = v]

\* The function Scope.Batch defers: copy the queue under batchQueueMu, then
\* notify every copied computation.
batchFlush(st) ==
    IF "bq" \in st.held THEN Hang(st)
    ELSE SliceNotify(st, Order(st.batchQueue, st.ord))

\* One entry of Scope.cleanup: m.cleanup of a memo, or a callback.
runCleanup(st, cb) ==
    IF cb \in Memos THEN memoCleanup(st, cb)
    ELSE [st EXCEPT !.ran = Append(@, cb)]

RECURSIVE RunCleanupsForward(_, _)
\* The loop of Scope.Dispose run from the first entry to the last.
RunCleanupsForward(st, i) ==
    IF i = 0 \/ st.hung THEN st
    ELSE RunCleanupsForward(runCleanup(st, st.cleanup[Len(st.cleanup) - i + 1]),
                            i - 1)

RECURSIVE RunCleanups(_, _)
\* for i := len(s.cleanup) - 1; i >= 0; i-- { s.cleanup[i]() }
RunCleanups(st, i) ==
    IF i = 0 \/ st.hung THEN st
    ELSE RunCleanups(runCleanup(st, st.cleanup[i]), i - 1)

\* Scope.Dispose, line 49
dropCleanups(st) == IF st.hung THEN st ELSE [st EXCEPT !.cleanup = << >>]

\* Scope.Dispose
scopeDispose(st) ==
    IF ~st.isLive THEN st
    ELSE dropCleanups(RunCleanups([st EXCEPT !.isLive = FALSE],
                                  Len(st.cleanup)))

----------------------------------------------------------------------------
(* The API calls *)

\* A range loop over a map that changes under it may or may not produce a
\* key created during the loop; MaxAgain is how many such keys one call's
\* loops produce a second time.
MaxAgain == 0

Agains(S) == {A \in SUBSET S : Cardinality(A) <= MaxAgain}

Created == {c \in Comps : fn[c] # None}

NoRuns == [c \in Comps |-> 0]
NoObs == [e \in Effects |-> NoVal]
NoSent == [s \in Sources |-> << >>]

\* The record a call starts from: the current state, no lock held.
Start(ord, again) ==
    [value |-> value, subscribers |-> subscribers, sources |-> sources,
     isDirty |-> isDirty, fn |-> fn, listener |-> listener,
     listenerStack |-> listenerStack, isBatching |-> isBatching,
     batchQueue |-> batchQueue, isLive |-> isLive, cleanup |-> cleanup,
     held |-> {}, hung |-> FALSE, overflow |-> FALSE, depth |-> 0,
     failed |-> Nil, partial |-> [c |-> Nil, s |-> {}],
     ord |-> ord, again |-> again, ins |-> {},
     runs |-> NoRuns, obs |-> NoObs, ran |-> << >>, sent |-> NoSent,
     order |-> << >>, tracked |-> tracked]

\* What a call did; cleaning is the computation whose cleanup loop the call
\* is blocked in, overflow that the call ended with the stack used up, order
\* the effects it ran; alt is the order in which another execution of the
\* same call on the same state runs the effects, where the model follows
\* one (the same order elsewhere).  written and pending are filled in by the return of an
\* outermost Batch: the cells its function wrote and the effects that were
\* subscribed to a cell when Set wrote it.
Called(op, node, r, err, wr, pend) ==
    [op |-> op, node |-> node,
     runs |-> r.runs, obs |-> r.obs, ran |-> r.ran, sent |-> r.sent,
     ret |-> IF op = "Get" /\ r.failed = Nil THEN r.value[node] ELSE NoVal,
     err |-> err, failed |-> r.failed, cleaning |-> r.partial.c,
     overflow |-> r.overflow, order |-> r.order, alt |-> r.order,
     written |-> wr, pending |-> pend]

\* The state the call leaves.  A cleanup loop that blocked had unsubscribed
\* from any part of the sources it could still lock.
Commit(r) ==
    /\ Len(r.cleanup) <= MaxCleanup
    /\ r.hung \/ Len(r.listenerStack) <= MaxStack
    /\ value' = r.value
    /\ \E rm \in SUBSET r.partial.s :
          subscribers' = [s \in Sources |->
                            IF s \in rm THEN r.subscribers[s] \ {r.partial.c}
                            ELSE r.subscribers[s]]
    /\ sources' = r.sources
    /\ isDirty' = r.isDirty
    /\ fn' = r.fn
    /\ listener' = r.listener
    /\ listenerStack' = r.listenerStack
    /\ isBatching' = r.isBatching
    /\ batchQueue' = r.batchQueue
    /\ isLive' = r.isLive
    /\ cleanup' = r.cleanup
    /\ hung' = r.hung
    /\ tracked' = r.tracked
    /\ UNCHANGED << disposed, rootBatch, pc, frame, locks, fatal >>

Init ==
    /\ value \in [Sources -> Vals]
    /\ \A m \in Memos : value[m] = 0
    /\ subscribers = [s \in Sources |-> {}]
    /\ sources = [c \in Comps |-> {}]
    /\ isDirty = [m \in Memos |-> TRUE]
    /\ fn = [c \in Comps |-> None]
    /\ listener = Nil
    /\ listenerStack = << >>
    /\ isBatching = FALSE
    /\ batchQueue = {}
    /\ isLive = TRUE
    /\ isClosed = FALSE
    /\ cleanup = << >>
    /\ batchDepth = 0
    /\ hung = FALSE
    /\ stopped = {}
    /\ written = {}
    /\ pendingAtWrite = {}
    /\ disposed = FALSE
    /\ rootBatch = 0
    /\ stored = [c \in Cells |-> value[c]]
    /\ tracked = [c \in Comps |-> [now |-> {}, was |-> {}, owed |-> FALSE]]
    /\ pc = [g \in Goroutines |-> "idle"]
    /\ frame = [g \in Goroutines |-> Frame0]
    /\ locks = [l \in Mutexes |-> Nil]
    /\ fatal = FALSE
    /\ last = [op |-> "Start", node |-> Nil,
               runs |-> NoRuns, obs |-> NoObs, ran |-> << >>, sent |-> NoSent,
               ret |-> NoVal, err |-> None, failed |-> Nil, cleaning |-> Nil,
               overflow |-> FALSE, order |-> << >>, alt |-> << >>,
               written |-> {}, pending |-> {}]

\* The call returns (or blocks), having done r.
Return(op, node, r) ==
    /\ Commit(r)
    /\ last' = Called(op, node, r, None, {}, {})

\* Effect(s, fn): e.notify(), return e.cleanup
NewEffect(e, p) ==
    /\ ~hung /\ fn[e] = None
    /\ e = "e2" => fn["e1"] # None
    /\ \A m \in EffectMemos(p) : fn[m] # None
    /\ Return("Effect", e, effectNotify([Start(Ord0, {}) EXCEPT !.fn[e] = p], e))
    /\ UNCHANGED << isClosed, batchDepth, stopped, written, pendingAtWrite, stored >>

\* Memo(s, fn): a dirty memo, OnCleanup(s, m.cleanup)
NewMemo(m, p) ==
    /\ ~hung /\ fn[m] = None
    /\ \A n \in MemoMemos(p) : fn[n] # None
    /\ Return("Memo", m, OnCleanup([Start(Ord0, {}) EXCEPT !.fn[m] = p,
                                                          !.isDirty[m] = TRUE], m))
    /\ UNCHANGED << isClosed, batchDepth, stopped, written, pendingAtWrite, stored >>

\* var m Readonly[int]; ...; m = Memo(s, fn): fn refers to the variable, so
\* it may read m itself or a memo that is assigned to its variable later.
NewMemoVar(m, p) ==
    /\ ~hung /\ fn[m] = None
    /\ Return("Memo", m, OnCleanup([Start(Ord0, {}) EXCEPT !.fn[m] = p,
                                                          !.isDirty[m] = TRUE], m))
    /\ UNCHANGED << isClosed, batchDepth, stopped, written, pendingAtWrite, stored >>

\* c.Set(v)
Set(c, v) ==
    /\ ~hung
    /\ \E ord \in Orders(Created), again \in Agains(Created) :
         Return("Set", c, signalSet(Start(ord, again), c, v))
    /\ written' = IF batchDepth > 0 THEN written \cup {c} ELSE written
    /\ pendingAtWrite' = IF batchDepth > 0
                         THEN pendingAtWrite \cup (subscribers[c] \cap Effects)
                         ELSE pendingAtWrite
    /\ stored' = [stored EXCEPT ![c] = v]
    /\ UNCHANGED << isClosed, batchDepth, stopped >>

\* The call returns having done r; r2 is what another execution of the same
\* call does on the same state, its range loops producing the map keys in an
\* order of their own.
Compared(op, node, r, r2, wr, pend) ==
    /\ Commit(r)
    /\ last' = [Called(op, node, r, None, wr, pend) EXCEPT !.alt = r2.order]

\* c.Set(v), followed in two executions
SetCompared(c, v) ==
    /\ ~hung
    /\ \E ord \in Orders(Created), alt \in Orders(Created) :
         Compared("Set", c, signalSet(Start(ord, {}), c, v),
                  signalSet(Start(alt, {}), c, v), {}, {})
    /\ written' = IF batchDepth > 0 THEN written \cup {c} ELSE written
    /\ pendingAtWrite' = IF batchDepth > 0
                         THEN pendingAtWrite \cup (subscribers[c] \cap Effects)
                         ELSE pendingAtWrite
    /\ stored' = [stored EXCEPT ![c] = v]
    /\ UNCHANGED << isClosed, batchDepth, stopped >>

\* c.Update(func(p *int) { *p = v })
Update(c, v) ==
    /\ ~hung
    /\ Return("Update", c, signalUpdate(Start(Ord0, {}), c, v))
    /\ written' = IF batchDepth > 0 THEN written \cup {c} ELSE written
    /\ stored' = [stored EXCEPT ![c] = v]
    /\ UNCHANGED << isClosed, batchDepth, stopped, pendingAtWrite >>

\* n.Get() called by the caller itself, on a cell or on a created memo
Read(n) ==
    /\ ~hung
    /\ n \in Memos => fn[n] # None
    /\ Return("Get", n, Get(Start(Ord0, {}), n))
    /\ UNCHANGED << isClosed, batchDepth, stopped, written, pendingAtWrite, stored >>

\* stop(), the handle Effect returned: e.cleanup
Stop(e) ==
    /\ ~hung /\ fn[e] # None
    /\ Return("Stop", e, effectCleanup(Start(Ord0, {}), e))
    /\ stopped' = stopped \cup {e}
    /\ UNCHANGED << isClosed, batchDepth, written, pendingAtWrite, stored >>

\* OnCleanup(s, cb) called by the caller itself
Register(cb) ==
    /\ ~hung
    /\ \A i \in DOMAIN cleanup : cleanup[i] # cb
    /\ cb = "u2" => \E i \in DOMAIN cleanup : cleanup[i] = "u1"
    /\ Return("OnCleanup", cb, OnCleanup(Start(Ord0, {}), cb))
    /\ UNCHANGED << isClosed, batchDepth, stopped, written, pendingAtWrite, stored >>

\* Scope.Batch on a live scope, up to the call of fn
BatchEnter ==
    /\ ~hung /\ isLive /\ batchDepth < MaxDepth
    /\ Return("BatchEnter", Nil, [Start(Ord0, {}) EXCEPT !.isBatching = TRUE])
    /\ batchDepth' = batchDepth + 1
    /\ UNCHANGED << isClosed, stopped, written, pendingAtWrite, stored >>

\* Scope.Batch on a disposed scope: returns without calling fn
BatchSkipped ==
    /\ ~hung /\ ~isLive
    /\ Return("BatchSkipped", Nil, Start(Ord0, {}))
    /\ UNCHANGED << isClosed, batchDepth, stopped, written, pendingAtWrite, stored >>

\* The return of the outermost Batch records what its function wrote.
Flushed(r) ==
    /\ Commit(r)
    /\ last' = IF batchDepth = 1
               THEN Called("BatchExit", Nil, r, None, written, pendingAtWrite)
               ELSE Called("BatchExit", Nil, r, None, {}, {})

\* fn has returned: the deferred function of Scope.Batch
BatchExit ==
    /\ ~hung /\ batchDepth > 0
    /\ \E ord \in Orders(Created) : Flushed(batchFlush(Start(ord, {})))
    /\ batchDepth' = batchDepth - 1
    /\ written' = IF batchDepth = 1 THEN {} ELSE written
    /\ pendingAtWrite' = IF batchDepth = 1 THEN {} ELSE pendingAtWrite
    /\ UNCHANGED << isClosed, stopped, stored >>

\* The deferred function of Scope.Batch, followed in two executions
BatchExitCompared ==
    /\ ~hung /\ batchDepth > 0
    /\ \E ord \in Orders(Created), alt \in Orders(Created) :
         Compared("BatchExit", Nil, batchFlush(Start(ord, {})),
                  batchFlush(Start(alt, {})),
                  IF batchDepth = 1 THEN written ELSE {},
                  IF batchDepth = 1 THEN pendingAtWrite ELSE {})
    /\ batchDepth' = batchDepth - 1
    /\ written' = IF batchDepth = 1 THEN {} ELSE written
    /\ pendingAtWrite' = IF batchDepth = 1 THEN {} ELSE pendingAtWrite
    /\ UNCHANGED << isClosed, stopped, stored >>

\* fn has panicked: the deferred function of Scope.Batch, after which the
\* panic goes on to the caller of Batch
FlushedFailing(r) ==
    /\ Commit(r)
    /\ last' = IF batchDepth = 1
               THEN Called("BatchFail", Nil, r, None, written, pendingAtWrite)
               ELSE Called("BatchFail", Nil, r, None, {}, {})

BatchFail ==
    /\ ~hung /\ batchDepth > 0
    /\ \E ord \in Orders(Created) : FlushedFailing(batchFlush(Start(ord, {})))
    /\ batchDepth' = batchDepth - 1
    /\ written' = IF batchDepth = 1 THEN {} ELSE written
    /\ pendingAtWrite' = IF batchDepth = 1 THEN {} ELSE pendingAtWrite
    /\ UNCHANGED << isClosed, stopped, stored >>

\* Scope.Dispose
Dispose ==
    /\ ~hung
    /\ Return("Dispose", Nil, scopeDispose(Start(Ord0, {})))
    /\ UNCHANGED << isClosed, batchDepth, stopped, written, pendingAtWrite, stored >>

\* Engine.Close, the first call and a later one
Closed(r, err) ==
    /\ Commit(r)
    /\ last' = Called("Close", Nil, r, err, {}, {})

\* Engine.Close without the test of isClosed (line 39).
CloseUnguarded ==
    /\ ~hung
    /\ Closed(scopeDispose(Start(Ord0, {})), Nil)
    /\ isClosed' = TRUE
    /\ UNCHANGED << batchDepth, stopped, written, pendingAtWrite, stored >>

Close ==
    /\ ~hung
    /\ IF isClosed THEN Closed(Start(Ord0, {}), "ErrEngineClosed")
       ELSE Closed(scopeDispose(Start(Ord0, {})), Nil)
    /\ isClosed' = TRUE
    /\ UNCHANGED << batchDepth, stopped, written, pendingAtWrite, stored >>

----------------------------------------------------------------------------
(* The scope of root.go: Root(fn) makes a scope, runs fn on it and returns   *)
(* the function that disposes it.  Batch on that scope and the dispose       *)
(* function lock scope.mu, and Batch holds it while its function executes.   *)

\* A call on the scope of Root: the engine is left as it is.
RootCall(op, blocks) ==
    /\ last' = Called(op, Nil, Start(Ord0, {}), None, {}, {})
    /\ hung' = blocks
    /\ UNCHANGED << value, subscribers, sources, isDirty, fn, listener,
                    listenerStack, isBatching, batchQueue, isLive, isClosed,
                    cleanup, batchDepth, stopped, written, pendingAtWrite, stored,
                    tracked, pc, frame, locks, fatal >>

\* scope.Batch on a scope that is not disposed, up to the call of fn
RootBatchEnter ==
    /\ ~hung /\ rootBatch = 0 /\ batchDepth = 0 /\ ~disposed
    /\ RootCall("RootBatchEnter", FALSE)
    /\ rootBatch' = 1
    /\ UNCHANGED disposed

\* scope.Batch on a disposed scope: returns without calling fn
RootBatchSkipped ==
    /\ ~hung /\ rootBatch = 0 /\ disposed
    /\ RootCall("RootBatchSkipped", FALSE)
    /\ UNCHANGED << disposed, rootBatch >>

\* scope.Batch called by the function of a Batch on the same scope:
\* s.mu.Lock() blocks, the mutex being held by the caller's own frame
RootBatchBlocked ==
    /\ ~hung /\ rootBatch = 1
    /\ RootCall("RootBatchBlocked", TRUE)
    /\ UNCHANGED << disposed, rootBatch >>

\* fn has returned: the deferred s.mu.Unlock()
RootBatchExit ==
    /\ ~hung /\ rootBatch = 1 /\ batchDepth = 0
    /\ RootCall("RootBatchExit", FALSE)
    /\ rootBatch' = 0
    /\ UNCHANGED disposed

\* dispose(), the function Root returned; called by the function of a Batch
\* on the scope it blocks on s.mu
RootDispose ==
    /\ ~hung
    /\ RootCall("RootDispose", rootBatch = 1)
    /\ disposed' = (disposed \/ rootBatch = 0)
    /\ UNCHANGED rootBatch

(***************************************************************************)
(* Spec: one effect over the two cells, with every function that reads     *)
(* cells only, under every call of the API.                                *)
(***************************************************************************)
Next ==
    \/ \E p \in EffectFns("e1") \ {"readM2"} : NewEffect("e1", p)
    \/ \E c \in Cells, v \in Vals : Set(c, v)
    \/ \E c \in Cells, v \in Vals : Update(c, v)
    \/ \E c \in Cells : Read(c)
    \/ Stop("e1")
    \/ \E cb \in UserCbs : Register(cb)
    \/ BatchEnter
    \/ BatchSkipped
    \/ BatchExit
    \/ Dispose
    \/ Close

Spec == Init /\ [][Next]_vars

(***************************************************************************)
(* SpecMemo: the two memos over the cells and an effect that reads the     *)
(* second memo, under writes, reads and batches that are not nested.       *)
(***************************************************************************)
NextMemo ==
    \/ NewEffect("e1", "readM2")
    \/ \E m \in Memos : \E p \in MemoFns(m) : NewMemo(m, p)
    \/ \E c \in Cells, v \in Vals : Set(c, v)
    \/ \E c \in Cells, v \in Vals : Update(c, v)
    \/ \E m \in Memos : Read(m)
    \/ batchDepth = 0 /\ BatchEnter
    \/ BatchExit

SpecMemo == Init /\ [][NextMemo]_vars

(***************************************************************************)
(* SpecRoot: Batch and disposal, on the root scope of an engine and on the *)
(* scope made by Root, with writes as the work the batch functions do.     *)
(***************************************************************************)
NextRoot ==
    \/ \E c \in Cells, v \in Vals : Set(c, v)
    \/ \E cb \in UserCbs : Register(cb)
    \/ BatchEnter
    \/ BatchSkipped
    \/ BatchExit
    \/ Dispose
    \/ Close
    \/ RootBatchEnter
    \/ RootBatchSkipped
    \/ RootBatchBlocked
    \/ RootBatchExit
    \/ RootDispose

SpecRoot == Init /\ [][NextRoot]_vars

----------------------------------------------------------------------------
(* The claims *)

\* The cell an effect function reads, when it reads exactly one cell and
\* nothing else.
OnlyCell(p) ==
    CASE p = "readA" -> "a"
      [] p = "readB" -> "b"
      [] OTHER       -> Nil

\* The engine has seen creations, reads, writes and batches only.
Undisturbed == stopped = {} /\ isLive /\ ~isClosed

\* C1: an effect whose function reads exactly one cell c runs exactly once
\* during Effect() and exactly once during each c.Set(v) made while no Batch
\* call is executing, whatever creations, writes and completed Batch calls
\* came before.
C1_RunsOncePerSet ==
    \A e \in Effects :
        OnlyCell(fn[e]) # Nil /\ Undisturbed =>
            /\ last.op = "Effect" /\ last.node = e => last.runs[e] = 1
            /\ last.op = "Set" /\ last.node = OnlyCell(fn[e]) /\ batchDepth = 0
                 => last.runs[e] = 1

\* C2: while the function of an outermost Batch is executing no effect runs
\* (no Set and no return of a Batch called by that function runs one), and
\* when the outermost Batch returns every effect that was subscribed to a
\* cell when Set wrote it has run exactly once.
C2_BatchRunsOnceAtEnd ==
    /\ batchDepth > 0 /\ last.op \in {"Set", "BatchExit"}
         => \A e \in Effects : last.runs[e] = 0
    /\ last.op = "BatchExit" /\ batchDepth = 0 /\ ~hung
         => \A e \in last.pending \ stopped : last.runs[e] = 1

\* C3: an effect whose function reads only cell a does not run during
\* b.Set outside a batch, nor during the return of an outermost Batch whose
\* function wrote only b.
C3_UnrelatedWrite ==
    \A e \in Effects :
        fn[e] = "readA" =>
            /\ last.op = "Set" /\ last.node = "b" /\ batchDepth = 0
                 => last.runs[e] = 0
            /\ last.op = "BatchExit" /\ batchDepth = 0 /\ last.written = {"b"}
                 => last.runs[e] = 0

\* The function of a memo that reads only cells, on the cells' values.
OnCells(p) ==
    CASE p = "double_a" -> value["a"] * 2
      [] p = "sum_ab"   -> value["a"] + value["b"]
      [] OTHER          -> NoVal

\* C4: while no Batch call is executing, Get on a memo whose function reads
\* only cells returns the function evaluated on the cells' current values.
C4_MemoGetCurrent ==
    \A m \in Memos :
        /\ last.op = "Get" /\ last.node = m /\ ~hung
        /\ batchDepth = 0 /\ OnCells(fn[m]) # NoVal
        => last.ret = OnCells(fn[m])

\* C5: with memo m1 = a * 2, memo m2 = m1 + 1 and an effect that reads m2,
\* a.Set(v) outside a batch returns, having run the functions of m1 and m2
\* once each and the effect once, which read m2 = 2 * v + 1.
C5_ChainRecomputesOnce ==
    /\ fn["m1"] = "double_a" /\ fn["m2"] = "inc_m1" /\ fn["e1"] = "readM2"
    /\ last.op = "Set" /\ last.node = "a" /\ batchDepth = 0
    => /\ ~hung
       /\ last.runs["m1"] = 1 /\ last.runs["m2"] = 1 /\ last.runs["e1"] = 1
       /\ last.obs["e1"] = 2 * value["a"] + 1

\* C6: Update notifies as Set is to notify: outside a batch every effect
\* subscribed to the cell has re-run when Update returns, inside a batch
\* every subscriber of the cell is in the pending set.
C6_UpdateNotifies ==
    last.op = "Update" /\ Undisturbed =>
        IF batchDepth = 0
        THEN \A e \in subscribers[last.node] \cap Effects : last.runs[e] >= 1
        ELSE subscribers[last.node] \subseteq batchQueue

\* C7: no call runs the function of an effect whose stop handle has been
\* called.
C7_StoppedNeverRuns ==
    \A e \in stopped : last.runs[e] = 0

\* C8: once Engine.Close has returned, no Set and no Batch runs an effect.
C8_ClosedNeverRuns ==
    isClosed /\ last.op \in {"Set", "BatchExit", "BatchSkipped"}
        => \A e \in Effects : last.runs[e] = 0

\* The callbacks of effect e that are registered and have not been executed.
PendingCbs(e) == {i \in DOMAIN cleanup : cleanup[i] = Cb(e)}

\* C9: the callback an effect's function registers with OnCleanup is
\* executed before the function is invoked again: a Set on a live scope that
\* re-runs the effect executes the callback of the run before, and at most
\* one callback of the effect (that of its latest run) is ever pending.
C9_CleanupPerRun ==
    \A e \in Effects :
        fn[e] = "readA_onCleanup" =>
            /\ Cardinality(PendingCbs(e)) <= 1
            /\ last.op = "Set" /\ isLive /\ last.runs[e] > 0
                 => \E i \in DOMAIN last.ran : last.ran[i] = Cb(e)

\* C10: an effect that reads cell a directly and cell b only inside Untrack
\* re-runs on a write to a and does not run on a write to b (the engine not
\* being in batching mode, the effect not stopped, the scope live).
C10_UntrackNoDependency ==
    \A e \in Effects :
        /\ fn[e] \in {"readA_untrackB", "untrackB_readA"}
        /\ Undisturbed /\ ~isBatching /\ last.op = "Set"
        => /\ last.node = "b" => last.runs[e] = 0
           /\ last.node = "a" => last.runs[e] >= 1

\* C11: Untrack restores the listener that was current when it was entered:
\* a run of an effect that reads cell a after an Untrack block has returned
\* leaves the effect subscribed to a.
C11_UntrackRestoresListener ==
    \A e \in Effects :
        fn[e] = "untrackB_readA" /\ last.runs[e] > 0 /\ ~hung
            => e \in subscribers["a"] /\ "a" \in sources[e]

\* C12: the return of a Batch called inside the function of another Batch
\* notifies nothing (it runs no effect and no memo function), and the return
\* of the outermost Batch has run every effect made pending by a Set in
\* either batch exactly once.
C12_NestedBatchDefers ==
    last.op = "BatchExit" =>
        IF batchDepth > 0
        THEN \A c \in Comps : last.runs[c] = 0
        ELSE ~hung => \A e \in last.pending \ stopped : last.runs[e] = 1

\* C13: whenever no Scope.Batch call is executing, the engine is not in
\* batching mode and its pending set is empty.
C13_BatchStateCleared ==
    batchDepth = 0 /\ ~hung => ~isBatching /\ batchQueue = {}

\* C14: a memo's function is invoked only inside Get on that memo and only
\* when the memo is dirty.  Memo() invokes none, a Set (or any call other
\* than Get) that runs no effect function invokes none, and a call that
\* notifies nothing (Get, Effect) invokes the function of a memo at most
\* once and only if the memo was dirty when the call began.
C14_MemoLazy ==
    [][\A m \in Memos :
          /\ last'.op = "Memo" => last'.runs[m] = 0
          /\ last'.op # "Get" /\ (\A e \in Effects : last'.runs[e] = 0)
               => last'.runs[m] = 0
          /\ last'.op \in {"Get", "Effect"} /\ last'.runs[m] > 0
               => isDirty[m] /\ last'.runs[m] = 1
          /\ last'.op = "Get" /\ last'.node = m /\ ~isDirty[m]
               => \A n \in Memos : last'.runs[n] = 0]_vars

\* A Set on a cell that a computed memo reads has returned: the memo is
\* dirty and its function has not run.
C14_Witness ==
    /\ last.op = "Set" /\ last.node = "a" /\ ~hung
    /\ "m1" \in subscribers["a"] /\ isDirty["m1"]
    /\ last.runs["m1"] = 0

\* C15: consecutive Get calls on a memo with no write in between invoke its
\* function at most once in total, exactly once if it was dirty before the
\* first.  Get on a dirty memo returns having invoked the function once and
\* leaves the memo clean; Get on a clean memo invokes nothing; and no Get
\* (on this or another memo) makes a clean memo dirty.
C15_MemoCaches ==
    [][last'.op = "Get" =>
          /\ ~hung'
          /\ last'.node \in Memos =>
               /\ last'.runs[last'.node] = IF isDirty[last'.node] THEN 1 ELSE 0
               /\ ~isDirty'[last'.node]
          /\ \A n \in Memos : ~isDirty[n] => ~isDirty'[n]]_vars

\* A Get on a computed memo was served from the cached value.
C15_Witness ==
    /\ last.op = "Get" /\ last.node = "m2" /\ fn["m2"] = "inc_m1"
    /\ last.runs["m2"] = 0 /\ last.runs["m1"] = 0
    /\ last.ret = value["m1"] + 1

Reverse(s) == [i \in 1 .. Len(s) |-> s[Len(s) + 1 - i]]

\* C16: Scope.Dispose on a live scope runs the callbacks that are registered
\* at that moment, each once, last registered first, and empties the list;
\* the scope never becomes live again, a Dispose or Engine.Close on a
\* disposed scope runs no callback, and no other call runs one.
C16_DisposeRunsCleanups ==
    [][/\ last'.op \in {"Dispose", "Close"} =>
            IF isLive
            THEN last'.ran = Reverse(cleanup) /\ cleanup' = << >> /\ ~isLive'
            ELSE last'.ran = << >>
       /\ last'.op \notin {"Dispose", "Close"} => last'.ran = << >>
       /\ ~isLive => ~isLive']_vars

\* Dispose has run three registered callbacks, the last registered first.
C16_Witness ==
    /\ last.op = "Dispose"
    /\ Len(last.ran) = 3 /\ last.ran[1] = "u2" /\ last.ran[3] = "u1"

\* C17: Engine.Close returns nil on the first call, which disposes the root
\* scope, and ErrEngineClosed on every later call; a later call runs no
\* callback and changes no field of the engine, the scope or any node.
C17_CloseOnce ==
    [][/\ last'.op = "Close" =>
            /\ last'.err = IF isClosed THEN "ErrEngineClosed" ELSE Nil
            /\ isClosed' /\ ~isLive'
            /\ isClosed =>
                 /\ last'.ran = << >>
                 /\ UNCHANGED << value, subscribers, sources, isDirty, fn,
                                 listener, listenerStack, isBatching,
                                 batchQueue, isLive, cleanup >>
       /\ isClosed => isClosed']_vars

\* A second Close has returned ErrEngineClosed with callbacks registered
\* since the first.
C17_Witness ==
    /\ last.op = "Close" /\ last.err = "ErrEngineClosed"
    /\ cleanup # << >>

\* C18: Batch invokes its function if the scope is live at the call and does
\* not invoke it once the scope is disposed, for the root scope of an engine
\* (disposed by Dispose or Engine.Close) and for the scope made by Root
\* (disposed by the function Root returned): a call that returned or blocked
\* without invoking the function was made on a disposed scope, and a call
\* that invoked it was made on a live one.
C18_BatchOnlyWhenLive ==
    /\ last.op = "BatchEnter" => isLive
    /\ last.op = "BatchSkipped" => ~isLive
    /\ last.op = "RootBatchEnter" => ~disposed
    /\ last.op \in {"RootBatchSkipped", "RootBatchBlocked"} => disposed

\* C19: calling the stop handle of an effect that has been stopped before is
\* a no-op: the call returns, changes no subscriber set and no source set,
\* and runs no cleanup callback.
C19_SecondStopNoOp ==
    [][last'.op = "Stop" /\ last'.node \in stopped =>
          /\ ~hung'
          /\ last'.ran = << >>
          /\ UNCHANGED << subscribers, sources, cleanup >>]_vars

\* C20: Get on a cell returns the value the cell was last given (its initial
\* value, or that of the most recent Set or Update), to the caller and to an
\* effect function alike, with or without a batch executing and on a live
\* or a disposed scope.
C20_GetReturnsStored ==
    /\ \A c \in Cells : value[c] = stored[c]
    /\ last.op = "Get" /\ last.node \in Cells /\ ~hung
         => last.ret = stored[last.node]
    /\ \A e \in Effects :
          last.runs[e] > 0 /\ OnlyCell(fn[e]) # Nil /\ ~hung
              => last.obs[e] = stored[OnlyCell(fn[e])]

\* Get on a cell, called by a batch function that has written the cell, on
\* a disposed scope.
C20_Witness ==
    /\ last.op = "Get" /\ last.node = "a" /\ last.ret = 1
    /\ batchDepth > 0 /\ "a" \in written /\ ~isLive

(***************************************************************************)
(* SpecDeps: computations whose reads depend on what they read: an effect  *)
(* and a memo that read b only when a is 1; under writes, reads, batches   *)
(* that are not nested, the effect's stop and the disposal of the scope.   *)
(***************************************************************************)
NextDeps ==
    \/ NewEffect("e1", "readA_ifB")
    \/ NewMemo("m1", "a_then_b")
    \/ \E c \in Cells, v \in Vals : Set(c, v)
    \/ Read("m1")
    \/ batchDepth = 0 /\ BatchEnter
    \/ BatchExit
    \/ Stop("e1")
    \/ Dispose

SpecDeps == Init /\ [][NextDeps]_vars

(***************************************************************************)
(* SpecNest: a memo that reads another memo and then b, and an effect that *)
(* reads a and then b or the outer memo (and may then panic), under        *)
(* writes, reads and batches that are not nested.                          *)
(***************************************************************************)
NextNest ==
    \/ NewMemo("m1", "double_a")
    \/ NewMemo("m2", "m1_plus_b")
    \/ \E p \in {"readA_BorM2", "readA_BorM2Fail"} : NewEffect("e1", p)
    \/ \E c \in Cells, v \in Vals : Set(c, v)
    \/ \E m \in Memos : Read(m)
    \/ batchDepth = 0 /\ BatchEnter
    \/ BatchExit

SpecNest == Init /\ [][NextNest]_vars

(***************************************************************************)
(* SpecWrite: an effect that reads a and writes b, and an effect that      *)
(* reads b, under writes and batches that are not nested.                  *)
(***************************************************************************)
NextWrite ==
    \/ NewEffect("e1", "readA_setB")
    \/ NewEffect("e2", "readB")
    \/ \E c \in Cells, v \in Vals : Set(c, v)
    \/ batchDepth = 0 /\ BatchEnter
    \/ BatchExit

SpecWrite == Init /\ [][NextWrite]_vars

(***************************************************************************)
(* SpecDiamond: two memos over a and an effect that reads both, under      *)
(* writes, reads and batches that are not nested.                          *)
(***************************************************************************)
NextDiamond ==
    \/ \E m \in Memos : NewMemo(m, "double_a")
    \/ NewEffect("e1", "readM1_M2")
    \/ \E c \in Cells, v \in Vals : Set(c, v)
    \/ \E m \in Memos : Read(m)
    \/ batchDepth = 0 /\ BatchEnter
    \/ BatchExit

SpecDiamond == Init /\ [][NextDiamond]_vars

(***************************************************************************)
(* SpecFail: functions that panic: an effect and a memo that read a and    *)
(* panic if it is 1, and Batch functions that panic, under writes, reads   *)
(* and nested batches.  A caller recovers from the panic and goes on.      *)
(***************************************************************************)
NextFail ==
    \/ \E p \in {"readA", "readA_failIf_B"} : NewEffect("e1", p)
    \/ NewMemo("m1", "a_failIf_b")
    \/ \E c \in Cells, v \in Vals : Set(c, v)
    \/ \E n \in Cells \cup {"m1"} : Read(n)
    \/ BatchEnter
    \/ BatchExit
    \/ BatchFail

SpecFail == Init /\ [][NextFail]_vars

\* C21: once a computation has re-evaluated, it is in the subscriber set of no
\* source that it read in an earlier run and not in the latest one, and
\* c.Set on such a cell neither runs it, nor queues it, nor marks it dirty.
C21_ConditionalDependencies ==
    [][/\ \A c \in Comps : \A s \in tracked'[c].was : c \notin subscribers'[s]
       /\ \A c \in Comps : \A s \in tracked[c].was :
            (last'.op = "Set" /\ last'.node = s
             /\ tracked[c].now \cap Memos = {})
            => /\ last'.runs[c] = 0
               /\ c \in batchQueue' => c \in batchQueue
               /\ c \in Memos => isDirty'[c] = isDirty[c]]_vars

\* C22: a computation that has finished an evaluation is subscribed to every
\* source its function read outside Untrack during that evaluation, also to
\* those it read after a read of a dirty memo.
C22_ListenerAfterNestedGet ==
    [][\A c \in Comps :
          (last'.runs[c] >= 1 /\ ~hung')
          => \A s \in tracked'[c].now : c \in subscribers'[s]]_vars

\* C23: with effect functions that write nothing, every Set and every Batch
\* returns: the goroutine never blocks on a lock held further up its own
\* call stack.
C23_CallsReturn ==
    last.op \in {"Set", "BatchExit"} => ~hung

\* C24: when an effect reads a and calls b.Set, a.Set made outside a batch
\* returns, having re-run the effect; the nested b.Set has returned and, when
\* it notified at once, has run the effect subscribed to b.
C24_NestedSetReturns ==
    [][(/\ last'.op = "Set" /\ last'.node = "a" /\ batchDepth = 0
        /\ fn["e1"] = "readA_setB" /\ "e1" \in subscribers["a"]
        /\ ~isBatching)
       => /\ ~hung'
          /\ last'.runs["e1"] = 1
          /\ value'["b"] = value'["a"]
          /\ "e2" \in subscribers["b"] => last'.runs["e2"] >= 1]_vars

\* C25: with memos m1 and m2 over a, both clean, and an effect that reads
\* both: a.Set outside a batch returns having run the effect exactly twice,
\* and the return of a Batch that wrote a and queued both memos has run it
\* exactly once.
C25_DiamondRuns ==
    [][(/\ fn["m1"] = "double_a" /\ fn["m2"] = "double_a"
        /\ fn["e1"] = "readM1_M2"
        /\ ~isDirty["m1"] /\ ~isDirty["m2"])
       => /\ (last'.op = "Set" /\ last'.node = "a" /\ batchDepth = 0)
             => (~hung' /\ last'.runs["e1"] = 2)
          /\ (last'.op = "BatchExit" /\ written = {"a"}
              /\ {"m1", "m2"} \subseteq batchQueue)
             => (~hung' /\ last'.runs["e1"] = 1)]_vars

\* C26: a call in which a memo was dirty from the start and did not recompute
\* makes no sub.notify() call from that memo; and a memo that does not
\* recompute during a call notifies each of its subscribers at most once.
C26_DirtyIgnoresNotify ==
    [][\A m \in Memos :
          last'.runs[m] = 0
          => /\ isDirty[m] => last'.sent[m] = << >>
             /\ \A i, j \in DOMAIN last'.sent[m] :
                   i # j => last'.sent[m][i] # last'.sent[m][j]
             /\ last'.sent[m] # << >> => isDirty'[m]]_vars

C26_Witness ==
    /\ last.op = "Set" /\ last.node = "a" /\ last.sent["a"] = << "m1" >>
    /\ subscribers["a"] = {"m1"} /\ subscribers["m1"] = {"m2"}
    /\ isDirty["m1"] /\ last.runs["m1"] = 0 /\ last.sent["m1"] = << >>

\* C27: a memo is dirty when Memo returns it; a call leaves a dirty memo clean
\* only if it ran the memo's function (inside memo.Get); and a call leaves a
\* clean memo dirty only if a source's loop called the memo's notify, or the
\* call is the return of a Batch and a Set has queued the memo since its
\* notify was last called.
C27_DirtyTransitions ==
    [][\A m \in Memos :
          /\ (last'.op = "Memo" /\ last'.node = m) => isDirty'[m]
          /\ (isDirty[m] /\ ~isDirty'[m]) => last'.runs[m] >= 1
          /\ (fn[m] # None /\ ~isDirty[m] /\ isDirty'[m])
             => \/ \E s \in Sources :
                     \E i \in DOMAIN last'.sent[s] : last'.sent[s][i] = m
                \/ last'.op = "BatchExit" /\ tracked[m].owed]_vars

\* C28: when the function of a Batch panics, the notifications still happen,
\* once: by the time the panic has left the outermost Batch, its unwinding
\* (through the Batch whose function it left just before, if any) has run
\* every effect that was subscribed to a cell when Set wrote it exactly once.
C28_FailedBatchFlushes ==
    [][(last'.op = "BatchFail" /\ last'.failed = Nil /\ ~hung'
        /\ batchDepth = 1)
       => \A e \in pendingAtWrite :
             last'.runs[e] + (IF last.op = "BatchFail" THEN last.runs[e] ELSE 0)
                = 1]_vars

\* C29: when the function of an existing effect or memo panics during a
\* re-evaluation, the node is left subscribed to no source that it read only
\* in earlier runs: its edges are exactly the sources it read, outside
\* Untrack, in the failed run before the panic.
C29_FailedRunDetaches ==
    [][\A c \in Comps :
          (fn[c] # None /\ last'.failed = c /\ ~hung')
          => /\ \A s \in tracked'[c].was : c \notin subscribers'[s]
             /\ \A s \in Sources :
                   c \in subscribers'[s] <=> s \in tracked'[c].now
             /\ sources'[c] = tracked'[c].now]_vars

\* C30: a call in which an effect or memo function panicked leaves the
\* engine's listener and listener stack as they were when the call began, and
\* a Get on a cell made by the caller itself adds no subscriber to the cell.
C30_FailureRestoresListener ==
    [][/\ (last'.failed # Nil /\ ~hung')
          => (listener' = listener /\ listenerStack' = listenerStack)
       /\ (last'.op = "Get" /\ last'.node \in Cells)
          => subscribers' = subscribers]_vars

\* The edges of the dependency graph, seen from the sources and from the
\* computations.
SubscriberEdges == {<< s, c >> \in Sources \X Comps : c \in subscribers[s]}
SourceEdges == {<< s, c >> \in Sources \X Comps : s \in sources[c]}

\* C31: whenever no cleanup call is executing (the last call is not blocked
\* inside the loop of a cleanup), a computation c is in the subscriber set of
\* a source s exactly when s is in the source set of c, after any sequence
\* of calls, returned, failed or blocked elsewhere.
C31_EdgesSymmetric == last.cleaning = Nil => SubscriberEdges = SourceEdges

\* A Set, a flush, a stop or a Dispose has removed edges and edges remain,
\* or a failed run has left its edges behind.
C31_Witness ==
    /\ last.cleaning = Nil
    /\ SubscriberEdges # {}
    /\ \/ last.op \in {"Set", "BatchExit"} /\ \E e \in Effects : last.runs[e] > 0
       \/ last.failed # Nil

(***************************************************************************)
(* SpecCycle: memos whose functions read themselves or each other, an      *)
(* effect that reads the second memo, under reads and writes.              *)
(***************************************************************************)

\* The memos the function of m reads, directly or through other memos.
Reach(m) ==
    MemoMemos(fn[m]) \cup UNION {MemoMemos(fn[n]) : n \in MemoMemos(fn[m])}

\* Every memo a read of m can come to has been assigned to its variable.
Assigned(m) == \A n \in {m} \cup Reach(m) : fn[n] # None

NextCycle ==
    \/ \E p \in {"inc_m1", "inc_m2", "double_a"} : NewMemoVar("m1", p)
    \/ \E p \in {"inc_m1", "inc_m2"} : NewMemoVar("m2", p)
    \/ Assigned("m2") /\ NewEffect("e1", "readM2")
    \/ \E c \in Cells, v \in Vals : Set(c, v)
    \/ \E m \in Memos : Assigned(m) /\ Read(m)
    \/ Dispose

SpecCycle == Init /\ [][NextCycle]_vars

\* C32: a Get on a memo whose function reads that same memo, directly or
\* through other memos, returns to its caller: it neither blocks nor recurses
\* until the stack is used up.
C32_CycleTerminates ==
    \A m \in Memos :
        last.op = "Get" /\ last.node = m /\ m \in Reach(m) => ~hung

(***************************************************************************)
(* SpecOrder: two effects over the two cells, under writes and batches     *)
(* that are not nested, each notifying call followed in two executions.    *)
(***************************************************************************)
NextOrder ==
    \/ \E e \in Effects : \E p \in {"readA", "readB"} : NewEffect(e, p)
    \/ \E c \in Cells, v \in Vals : SetCompared(c, v)
    \/ batchDepth = 0 /\ BatchEnter
    \/ BatchExitCompared

SpecOrder == Init /\ [][NextOrder]_vars

\* C33: a call made on the same state runs the same effects in the same
\* order in every execution: the order in which a Set or the flush of a
\* Batch notifies several subscribers does not vary.
C33_DeterministicOrder == last.alt = last.order

----------------------------------------------------------------------------
(* Calls made by several goroutines at once.  A call is followed step by   *)
(* step: a step ends where the goroutine takes a mutex (it waits while     *)
(* another goroutine holds it) or is about to read or write a subscriber   *)
(* set.  The functions of the effects read one cell.                       *)

\* What no step of a call changes.
Fixed == << isDirty, isBatching, isLive, isClosed, cleanup, batchDepth, hung,
            disposed, rootBatch, tracked, last >>

Goto(g, label, f) ==
    /\ pc' = [pc EXCEPT ![g] = label]
    /\ frame' = [frame EXCEPT ![g] = f]

AllIdle == ~fatal /\ \A g \in Goroutines : pc[g] = "idle"

\* The cell the function of the effect a goroutine is running reads.
ReadBy(g) == OnlyCell(fn[frame[g].comp])

\* The goroutine is about to write the subscriber set of s: the delete of
\* unsubscribe, the insert of Get.
Writing(g, s) ==
    \/ pc[g] = "n_unsub" /\ frame[g].cur = s
    \/ pc[g] = "n_add" /\ ReadBy(g) = s

\* The source whose subscriber set the next step of the goroutine reads or
\* writes.
Accessed(g) ==
    CASE pc[g] = "set_range" -> frame[g].node
      [] pc[g] = "n_unsub"   -> frame[g].cur
      [] pc[g] = "n_add"     -> ReadBy(g)
      [] OTHER               -> Nil

\* A step of a range loop over a map that another goroutine is writing: the
\* runtime may notice and stop the program, or not.
RangeOutcomes(g, s) ==
    IF \E h \in Goroutines \ {g} : Writing(h, s) THEN BOOLEAN ELSE {FALSE}

\* c.Set(v), line 54: s.mu.Lock()
GoSet(g, c, v) ==
    /\ ~fatal /\ pc[g] = "idle" /\ locks[c] = Nil
    /\ Goto(g, "set_store", [Frame0 EXCEPT !.node = c, !.val = v])
    /\ locks' = [locks EXCEPT ![c] = g]
    /\ UNCHANGED << Fixed, value, subscribers, sources, fn, listener,
                    listenerStack, batchQueue, stopped, written,
                    pendingAtWrite, stored, fatal >>

\* signal.Set, lines 55-56: s.value = value; s.mu.Unlock()
SetStore(g) ==
    /\ ~fatal /\ pc[g] = "set_store"
    /\ value' = [value EXCEPT ![frame[g].node] = frame[g].val]
    /\ stored' = [stored EXCEPT ![frame[g].node] = frame[g].val]
    /\ written' = IF batchDepth > 0 THEN written \cup {frame[g].node}
                  ELSE written
    /\ pendingAtWrite' =
         IF batchDepth > 0
         THEN pendingAtWrite \cup (subscribers[frame[g].node] \cap Effects)
         ELSE pendingAtWrite
    /\ locks' = [locks EXCEPT ![frame[g].node] = Nil]
    /\ Goto(g, "set_bq", frame[g])
    /\ UNCHANGED << Fixed, subscribers, sources, fn, listener, listenerStack,
                    batchQueue, stopped, fatal >>

\* signal.Set, line 58: batchQueueMu.Lock()
SetBq(g) ==
    /\ ~fatal /\ pc[g] = "set_bq" /\ locks["bq"] = Nil
    /\ locks' = [locks EXCEPT !["bq"] = g]
    /\ Goto(g, "set_range", frame[g])
    /\ UNCHANGED << Fixed, value, subscribers, sources, fn, listener,
                    listenerStack, batchQueue, stopped, written,
                    pendingAtWrite, stored, fatal >>

\* signal.Set, lines 60-69: one step of for sub := range s.subscribers, in
\* the batch and outside it, and the deferred Unlock when the loop ends.
\* The loop produces the keys in any order, and a key another goroutine
\* adds or removes meanwhile as the map stands when the step is taken.
SetRange(g) ==
    /\ ~fatal /\ pc[g] = "set_range"
    /\ fatal' \in RangeOutcomes(g, frame[g].node)
    /\ IF subscribers[frame[g].node] \ frame[g].seen = {}
       THEN /\ locks' = [locks EXCEPT !["bq"] = Nil]
            /\ Goto(g, "idle", Frame0)
            /\ UNCHANGED batchQueue
       ELSE \E k \in subscribers[frame[g].node] \ frame[g].seen :
               /\ UNCHANGED locks
               /\ IF isBatching
                  THEN /\ batchQueue' = batchQueue \cup {k}
                       /\ Goto(g, "set_range",
                               [frame[g] EXCEPT !.seen = @ \cup {k}])
                  ELSE /\ UNCHANGED batchQueue
                       /\ Goto(g, "n_enter",
                               [frame[g] EXCEPT !.seen = @ \cup {k},
                                                !.comp = k,
                                                !.ret = "set_range"])
    /\ UNCHANGED << Fixed, value, subscribers, sources, fn, listener,
                    listenerStack, stopped, written, pendingAtWrite, stored >>

\* Effect(s, fn): e.notify()
GoEffect(g, e, p) ==
    /\ ~fatal /\ pc[g] = "idle" /\ fn[e] = None
    /\ e = "e2" => fn["e1"] # None
    /\ fn' = [fn EXCEPT ![e] = p]
    /\ Goto(g, "n_enter", [Frame0 EXCEPT !.comp = e, !.ret = "idle"])
    /\ UNCHANGED << Fixed, value, subscribers, sources, listener,
                    listenerStack, batchQueue, stopped, written,
                    pendingAtWrite, stored, locks, fatal >>

\* stop(): e.cleanup()
GoStop(g, e) ==
    /\ ~fatal /\ pc[g] = "idle" /\ fn[e] # None
    /\ stopped' = stopped \cup {e}
    /\ Goto(g, "n_enter", [Frame0 EXCEPT !.comp = e, !.ret = "stop"])
    /\ UNCHANGED << Fixed, value, subscribers, sources, fn, listener,
                    listenerStack, batchQueue, written, pendingAtWrite,
                    stored, locks, fatal >>

\* effect.cleanup, line 29: e.mu.Lock()
NEnter(g) ==
    /\ ~fatal /\ pc[g] = "n_enter" /\ locks[frame[g].comp] = Nil
    /\ locks' = [locks EXCEPT ![frame[g].comp] = g]
    /\ Goto(g, "n_cleanup", [frame[g] EXCEPT !.pend = sources[frame[g].comp]])
    /\ UNCHANGED << Fixed, value, subscribers, sources, fn, listener,
                    listenerStack, batchQueue, stopped, written,
                    pendingAtWrite, stored, fatal >>

\* effect.cleanup, lines 31-34: the loop takes the next source and
\* unsubscribe locks its mu; after the loop e.sources = nil and Unlock.
NCleanup(g) ==
    /\ ~fatal /\ pc[g] = "n_cleanup"
    /\ IF frame[g].pend = {}
       THEN /\ sources' = [sources EXCEPT ![frame[g].comp] = {}]
            /\ locks' = [locks EXCEPT ![frame[g].comp] = Nil]
            /\ IF frame[g].ret = "stop" THEN Goto(g, "idle", Frame0)
               ELSE Goto(g, "n_push", frame[g])
       ELSE \E s \in frame[g].pend :
               /\ locks[s] = Nil
               /\ locks' = [locks EXCEPT ![s] = g]
               /\ Goto(g, "n_unsub", [frame[g] EXCEPT !.pend = @ \ {s},
                                                      !.cur = s])
               /\ UNCHANGED sources
    /\ UNCHANGED << Fixed, value, subscribers, fn, listener, listenerStack,
                    batchQueue, stopped, written, pendingAtWrite, stored,
                    fatal >>

\* signal.unsubscribe, lines 30-31: delete(s.subscribers, c); Unlock
NUnsub(g) ==
    /\ ~fatal /\ pc[g] = "n_unsub"
    /\ subscribers' = [subscribers EXCEPT ![frame[g].cur] = @ \ {frame[g].comp}]
    /\ locks' = [locks EXCEPT ![frame[g].cur] = Nil]
    /\ Goto(g, "n_cleanup", [frame[g] EXCEPT !.cur = Nil])
    /\ UNCHANGED << Fixed, value, sources, fn, listener, listenerStack,
                    batchQueue, stopped, written, pendingAtWrite, stored,
                    fatal >>

\* effect.notify, line 39: pushListener(e)
NPush(g) ==
    /\ ~fatal /\ pc[g] = "n_push"
    /\ listenerStack' = Append(listenerStack, listener)
    /\ listener' = frame[g].comp
    /\ Goto(g, "n_fn", frame[g])
    /\ UNCHANGED << Fixed, value, subscribers, sources, fn, batchQueue,
                    stopped, written, pendingAtWrite, stored, locks, fatal >>

\* e.fn() calls c.Get(): signal.Get, lines 36-37: read the listener and,
\* when there is one, s.mu.Lock()
NGet(g) ==
    /\ ~fatal /\ pc[g] = "n_fn"
    /\ IF listener = Nil
       THEN /\ Goto(g, "n_val", frame[g])
            /\ UNCHANGED locks
       ELSE /\ locks[ReadBy(g)] = Nil
            /\ locks' = [locks EXCEPT ![ReadBy(g)] = g]
            /\ Goto(g, "n_add", [frame[g] EXCEPT !.lis = listener])
    /\ UNCHANGED << Fixed, value, subscribers, sources, fn, listener,
                    listenerStack, batchQueue, stopped, written,
                    pendingAtWrite, stored, fatal >>

\* signal.Get, lines 38-42: s.subscribers[listener] = struct{}{}; Unlock
NAdd(g) ==
    /\ ~fatal /\ pc[g] = "n_add"
    /\ subscribers' = [subscribers EXCEPT ![ReadBy(g)] = @ \cup {frame[g].lis}]
    /\ locks' = [locks EXCEPT ![ReadBy(g)] = Nil]
    /\ Goto(g, "n_src", frame[g])
    /\ UNCHANGED << Fixed, value, sources, fn, listener, listenerStack,
                    batchQueue, stopped, written, pendingAtWrite, stored,
                    fatal >>

\* signal.Get, line 45: listener.addSource(s), under the listener's mu
NSrc(g) ==
    /\ ~fatal /\ pc[g] = "n_src" /\ locks[frame[g].lis] = Nil
    /\ sources' = [sources EXCEPT ![frame[g].lis] = @ \cup {ReadBy(g)}]
    /\ Goto(g, "n_val", [frame[g] EXCEPT !.lis = Nil])
    /\ UNCHANGED << Fixed, value, subscribers, fn, listener, listenerStack,
                    batchQueue, stopped, written, pendingAtWrite, stored,
                    locks, fatal >>

\* signal.Get, lines 48-50: the value is read under s.mu.RLock()
NVal(g) ==
    /\ ~fatal /\ pc[g] = "n_val" /\ locks[ReadBy(g)] = Nil
    /\ Goto(g, "n_pop", frame[g])
    /\ UNCHANGED << Fixed, value, subscribers, sources, fn, listener,
                    listenerStack, batchQueue, stopped, written,
                    pendingAtWrite, stored, locks, fatal >>

\* effect.notify, line 41: popListener(), and the return to the loop of Set
\* or to the caller of Effect
NPop(g) ==
    /\ ~fatal /\ pc[g] = "n_pop"
    /\ listenerStack' = popListener([listener |-> listener,
                                     listenerStack |-> listenerStack]).listenerStack
    /\ listener' = popListener([listener |-> listener,
                                listenerStack |-> listenerStack]).listener
    /\ IF frame[g].ret = "set_range"
       THEN Goto(g, "set_range", [frame[g] EXCEPT !.comp = Nil, !.ret = Nil])
       ELSE Goto(g, "idle", Frame0)
    /\ UNCHANGED << Fixed, value, subscribers, sources, fn, batchQueue,
                    stopped, written, pendingAtWrite, stored, locks, fatal >>

(***************************************************************************)
(* SpecRace: one goroutine writes the cells while the other creates the    *)
(* two effects and stops them; a Batch is entered and left while no other  *)
(* call is under way.                                                      *)
(***************************************************************************)
NextRace ==
    \/ \E c \in Cells, v \in Vals : GoSet("g1", c, v)
    \/ \E g \in Goroutines : SetStore(g)
    \/ \E g \in Goroutines : SetBq(g)
    \/ \E g \in Goroutines : SetRange(g)
    \/ \E e \in Effects, p \in {"readA", "readB"} : GoEffect("g2", e, p)
    \/ \E e \in Effects : GoStop("g2", e)
    \/ \E g \in Goroutines : NEnter(g)
    \/ \E g \in Goroutines : NCleanup(g)
    \/ \E g \in Goroutines : NUnsub(g)
    \/ \E g \in Goroutines : NPush(g)
    \/ \E g \in Goroutines : NGet(g)
    \/ \E g \in Goroutines : NAdd(g)
    \/ \E g \in Goroutines : NSrc(g)
    \/ \E g \in Goroutines : NVal(g)
    \/ \E g \in Goroutines : NPop(g)
    \/ AllIdle /\ batchDepth = 0 /\ BatchEnter
    \/ AllIdle /\ BatchExit

SpecRace == Init /\ [][NextRace]_vars

\* C34: a goroutine that is about to read or write the subscriber set of a
\* node holds that node's mu, and no goroutine is about to write the set
\* while the loop of a Set on another goroutine is about to read it.
C34_SubscribersUnderLock ==
    /\ \A g \in Goroutines :
          Accessed(g) # Nil => locks[Accessed(g)] = g
    /\ \A g \in Goroutines : \A h \in Goroutines \ {g} :
          pc[g] = "set_range" => ~Writing(h, frame[g].node)

====
